---- MODULE Spec2Model ----
(***************************************************************************)
(* Enrollment state machine of web/courses.go and its synchronisation with *)
(* the SCM provider.  One call of updateEnrollment is a sequence of steps, *)
(* one per store or SCM operation the code performs; each step either      *)
(* succeeds and moves on, or fails and makes the call return the error.    *)
(***************************************************************************)
EXTENDS Integers, Sequences, FiniteSets, TLC

\* Cap on the number of USER Repository rows kept per (organization, user).
MaxRepos == 2

Users    == {42, 43}
Orgs     == {100, 200}
\* Caller threads; "SeqProcs" is the single caller of a sequential series.
Procs    == {1, 2}
SeqProcs == {1}

\* pb.Enrollment_UserStatus
Statuses     == {"NONE", "PENDING", "REJECTED", "STUDENT", "TEACHER"}
ValidTargets == {"PENDING", "REJECTED", "STUDENT", "TEACHER"}

\* Error values
ErrStore     == "ErrStore"
ErrTransient == "ErrTransient"
ErrConflict  == "ErrConflict"
ErrNotFound  == "ErrNotFound"
ErrUnknown   == "unknown enrollment"
TransientErrors == {ErrStore, ErrTransient}
Errors          == {ErrStore, ErrTransient, ErrConflict, ErrNotFound, ErrUnknown}

VARIABLES
    \* ---- Store
    enrollments,   \* users that have an enrollment row for the course
    status,        \* persisted enrollment status per user
    courseOrg,     \* course.OrganizationID
    repos,         \* number of USER Repository rows per <<org, user>>
    \* ---- SCM
    studentsTeam,  \* <<org, user>> members of team "students"
    teachersTeam,  \* <<org, user>> members of team "teachers"
    orgAdmin,      \* <<org, user>> with organization role "admin"
    scmRepo,       \* <<org, user>> whose per-user repository exists
    userTeam,      \* <<org, user>> whose per-user team exists
    \* ---- one updateEnrollment call per caller thread
    pc,            \* position in updateEnrollment
    req,           \* request: [user, status]
    enr,           \* organization of the course of the loaded enrollment
    log,           \* store and SCM operations invoked by the call, in order
    result,        \* "none" while running, then "ok" or the error returned
    pre,           \* store state when the call began
    first,         \* store state when the first attempt of a retried call began
    \* ---- environment
    faults,        \* transient SCM/store failures may (still) occur
    \* ---- the last updateCourse call
    upd            \* [id, org, before, calls, result]

storeVars == <<enrollments, status, courseOrg, repos>>
scmVars   == <<studentsTeam, teachersTeam, orgAdmin, scmRepo, userTeam>>
callVars  == <<pc, req, enr, log, result, pre, first>>
vars      == <<storeVars, scmVars, callVars, faults, upd>>

Keys == Orgs \X Users

\* Mutant: every call works on the repository and memberships of user 42.
Key_SharedUser(p) == <<enr[p], 42>>

\* Key of the call's user under the organization of the loaded course.
Key(p) == <<enr[p], req[p].user>>

\* One recorded operation of a call.
Entry(kind, op, team, role, res) ==
    [kind |-> kind, op |-> op, team |-> team, role |-> role, res |-> res]

\* The call performs one operation and either continues (res = "none" while
\* running) or returns.
Step(p, next, entry, res) ==
    /\ pc'     = [pc EXCEPT ![p] = next]
    /\ log'    = [log EXCEPT ![p] = Append(@, entry)]
    /\ result' = [result EXCEPT ![p] = res]
    /\ UNCHANGED <<req, pre, first, faults, upd>>

Continue(p, next, entry) == Step(p, next, entry, "none")
Return(p, entry, res)    == Step(p, "done", entry, res)

\* No updateCourse call has been made.
NoUpdate == [id |-> 0, org |-> 0, before |-> 0, calls |-> <<>>, result |-> "none"]

Init ==
    /\ enrollments  = Users
    /\ status       = [u \in Users |-> "PENDING"]
    /\ courseOrg    = 100
    /\ repos        = [k \in Keys |-> 0]
    /\ studentsTeam = {}
    /\ teachersTeam = {}
    /\ orgAdmin     = {}
    /\ scmRepo      = {}
    /\ userTeam     = {}
    /\ pc           = [p \in Procs |-> "idle"]
    /\ req          = [p \in Procs |-> [user |-> 42, status |-> "NONE"]]
    /\ enr          = [p \in Procs |-> 100]
    /\ log          = [p \in Procs |-> <<>>]
    /\ result       = [p \in Procs |-> "none"]
    /\ pre          = [p \in Procs |-> [status |-> "PENDING", repos |-> 0, clean |-> FALSE]]
    /\ first        = [p \in Procs |-> [status |-> "PENDING", repos |-> 0, retry |-> FALSE]]
    /\ faults       = TRUE
    /\ upd          = NoUpdate

(***************************************************************************)
(* Store operations (the methods of s.db): the persistence layer.          *)
(***************************************************************************)
DbSetStatus(u, st) == status' = [status EXCEPT ![u] = st]

DbRejectEnrollment(u)     == DbSetStatus(u, "REJECTED")
DbSetPendingEnrollment(u) == DbSetStatus(u, "PENDING")
DbEnrollStudent(u)        == DbSetStatus(u, "STUDENT")
DbEnrollTeacher(u)        == DbSetStatus(u, "TEACHER")

\* GetRepositories(query): the USER rows of <<org, user>>.
DbGetRepositories(k) == repos[k]

DbCreateRepository(k) ==
    /\ repos[k] < MaxRepos
    /\ repos' = [repos EXCEPT ![k] = @ + 1]

(***************************************************************************)
(* SCM adapter operations.                                                 *)
(***************************************************************************)
\* AddTeamMember is safe to call when the user already is a member.
ScmAddTeamMember(team, k) ==
    IF team = "students"
    THEN studentsTeam' = studentsTeam \cup {k} /\ UNCHANGED teachersTeam
    ELSE teachersTeam' = teachersTeam \cup {k} /\ UNCHANGED studentsTeam

\* RemoveTeamMember is safe to call when the user already is absent.
ScmRemoveTeamMember(team, k) ==
    IF team = "students"
    THEN studentsTeam' = studentsTeam \ {k} /\ UNCHANGED teachersTeam
    ELSE teachersTeam' = teachersTeam \ {k} /\ UNCHANGED studentsTeam

ScmUpdateOrgMembership(role, k) ==
    orgAdmin' = IF role = "admin" THEN orgAdmin \cup {k} ELSE orgAdmin \ {k}

(***************************************************************************)
(* updateEnrollment                                                        *)
(***************************************************************************)
\* A caller invokes updateEnrollment(request).  A request repeated after a
\* failed call is a retry; "first" keeps the store state the chain of
\* attempts started from.
BeginCall(p, u, t) ==
    LET r     == [user |-> u, status |-> t]
        again == /\ pc[p] = "done"
                 /\ req[p] = r
                 /\ result[p] \in Errors
                 /\ (result[p] \in TransientErrors \/ first[p].retry)
    IN
    /\ pc[p] \in {"idle", "done"}
    /\ pc'     = [pc EXCEPT ![p] = "lookup"]
    /\ req'    = [req EXCEPT ![p] = r]
    /\ log'    = [log EXCEPT ![p] = <<>>]
    /\ result' = [result EXCEPT ![p] = "none"]
    /\ pre'    = [pre EXCEPT ![p] = [status |-> status[u],
                                     repos  |-> repos[<<courseOrg, u>>],
                                     clean  |-> ~faults]]
    /\ first'  = [first EXCEPT ![p] =
                    IF again
                    THEN IF first[p].retry
                         THEN first[p]
                         ELSE [status |-> pre[p].status,
                               repos  |-> pre[p].repos,
                               retry  |-> TRUE]
                    ELSE [status |-> status[u],
                          repos  |-> repos[<<courseOrg, u>>],
                          retry  |-> FALSE]]
    /\ UNCHANGED <<storeVars, scmVars, enr, faults, upd>>

\* Any user, any status of the request.
Begin(p) == \E u \in Users, t \in Statuses : BeginCall(p, u, t)

\* Mutant: a status without a case of its own is handled as PENDING.
Dispatch_DefaultPending(t) ==
    CASE t = "REJECTED" -> "reject"
      [] t = "STUDENT"  -> "getrepos"
      [] t = "TEACHER"  -> "getorg"
      [] OTHER          -> "setpending"

\* switch request.Status
Dispatch(t) ==
    CASE t = "REJECTED" -> "reject"
      [] t = "PENDING"  -> "setpending"
      [] t = "STUDENT"  -> "getrepos"
      [] t = "TEACHER"  -> "getorg"
      [] OTHER          -> "unknown"

\* Mutant: a missing enrollment is not an error.
GetEnrollment_IgnoresMissing(p) ==
    /\ pc[p] = "lookup"
    /\ UNCHANGED <<storeVars, scmVars>>
    /\ \/ /\ enr' = [enr EXCEPT ![p] = courseOrg]
          /\ Continue(p, Dispatch(req[p].status),
                      Entry("read", "GetEnrollmentByCourseAndUser", "", "", "ok"))
       \/ /\ faults
          /\ UNCHANGED enr
          /\ Return(p, Entry("read", "GetEnrollmentByCourseAndUser", "", "", ErrStore),
                    ErrStore)

\* enrollment, err := s.db.GetEnrollmentByCourseAndUser(...)
GetEnrollment(p) ==
    /\ pc[p] = "lookup"
    /\ UNCHANGED <<storeVars, scmVars>>
    /\ \/ /\ req[p].user \in enrollments
          /\ enr' = [enr EXCEPT ![p] = courseOrg]
          /\ Continue(p, Dispatch(req[p].status),
                      Entry("read", "GetEnrollmentByCourseAndUser", "", "", "ok"))
       \/ /\ req[p].user \notin enrollments
          /\ UNCHANGED enr
          /\ Return(p, Entry("read", "GetEnrollmentByCourseAndUser", "", "", ErrNotFound),
                    ErrNotFound)
       \/ /\ faults
          /\ UNCHANGED enr
          /\ Return(p, Entry("read", "GetEnrollmentByCourseAndUser", "", "", ErrStore),
                    ErrStore)

\* Mutant: rejecting also revokes the membership of team "students".
RejectEnrollment_Revokes(p) ==
    /\ pc[p] = "reject"
    /\ UNCHANGED <<enrollments, courseOrg, repos, orgAdmin, scmRepo, userTeam, enr>>
    /\ \/ /\ DbRejectEnrollment(req[p].user)
          /\ ScmRemoveTeamMember("students", <<courseOrg, req[p].user>>)
          /\ Return(p, Entry("write", "RejectEnrollment", "", "", "ok"), "ok")
       \/ /\ faults
          /\ UNCHANGED <<status, studentsTeam, teachersTeam>>
          /\ Return(p, Entry("write", "RejectEnrollment", "", "", ErrStore), ErrStore)

\* case pb.Enrollment_REJECTED
RejectEnrollment(p) ==
    /\ pc[p] = "reject"
    /\ UNCHANGED <<enrollments, courseOrg, repos, scmVars, enr>>
    /\ \/ /\ DbRejectEnrollment(req[p].user)
          /\ Return(p, Entry("write", "RejectEnrollment", "", "", "ok"), "ok")
       \/ /\ faults
          /\ UNCHANGED status
          /\ Return(p, Entry("write", "RejectEnrollment", "", "", ErrStore), ErrStore)

\* case pb.Enrollment_PENDING
SetPendingEnrollment(p) ==
    /\ pc[p] = "setpending"
    /\ UNCHANGED <<enrollments, courseOrg, repos, scmVars, enr>>
    /\ \/ /\ DbSetPendingEnrollment(req[p].user)
          /\ Return(p, Entry("write", "SetPendingEnrollment", "", "", "ok"), "ok")
       \/ /\ faults
          /\ UNCHANGED status
          /\ Return(p, Entry("write", "SetPendingEnrollment", "", "", ErrStore), ErrStore)

\* Mutant: the check for an existing user repository is left out.
GetRepositories_NoCheck(p) ==
    /\ pc[p] = "getrepos"
    /\ UNCHANGED <<storeVars, scmVars, enr>>
    /\ \/ Continue(p, "getorg", Entry("read", "GetRepositories", "", "", "ok"))
       \/ /\ faults
          /\ Return(p, Entry("read", "GetRepositories", "", "", ErrStore), ErrStore)

\* case pb.Enrollment_STUDENT: repos, err := s.db.GetRepositories(userRepoQuery)
GetRepositories(p) ==
    /\ pc[p] = "getrepos"
    /\ UNCHANGED <<storeVars, scmVars, enr>>
    /\ \/ Continue(p, IF DbGetRepositories(Key(p)) > 0 THEN "enrollstudent" ELSE "getorg",
                   Entry("read", "GetRepositories", "", "", "ok"))
       \/ /\ faults
          /\ Return(p, Entry("read", "GetRepositories", "", "", ErrStore), ErrStore)

\* updateReposAndTeams: org, err := sc.GetOrganization(ctx, course.OrganizationID)
GetOrganization(p) ==
    /\ pc[p] = "getorg"
    /\ UNCHANGED <<storeVars, scmVars, enr>>
    /\ \/ Continue(p, IF req[p].status = "STUDENT" THEN "addstudent" ELSE "updateorg",
                   Entry("scm", "GetOrganization", "", "", "ok"))
       \/ /\ faults
          /\ Return(p, Entry("scm", "GetOrganization", "", "", ErrTransient), ErrTransient)

\* Mutant: the error of AddTeamMember is replaced by an error of the call's own.
AddStudentToTeam_OwnError(p) ==
    /\ pc[p] = "addstudent"
    /\ UNCHANGED <<storeVars, orgAdmin, scmRepo, userTeam, enr>>
    /\ \/ /\ ScmAddTeamMember("students", Key(p))
          /\ Continue(p, "provision", Entry("scm", "AddTeamMember", "students", "", "ok"))
       \/ /\ faults
          /\ UNCHANGED <<studentsTeam, teachersTeam>>
          /\ Return(p, Entry("scm", "AddTeamMember", "students", "", ErrTransient),
                    ErrUnknown)

\* updateReposAndTeams, STUDENT: sc.AddTeamMember(ctx, teamOpt) on "students"
AddStudentToTeam(p) ==
    /\ pc[p] = "addstudent"
    /\ UNCHANGED <<storeVars, orgAdmin, scmRepo, userTeam, enr>>
    /\ \/ /\ ScmAddTeamMember("students", Key(p))
          /\ Continue(p, "provision", Entry("scm", "AddTeamMember", "students", "", "ok"))
       \/ /\ faults
          /\ UNCHANGED <<studentsTeam, teachersTeam>>
          /\ Return(p, Entry("scm", "AddTeamMember", "students", "", ErrTransient),
                    ErrTransient)

\* createRepoAndTeam(k): the provisioner creates the per-user repository,
\* then the team of that single user.
ScmCreateRepoAndTeam(k) ==
    /\ scmRepo'  = scmRepo \cup {k}
    /\ userTeam' = userTeam \cup {k}

\* A provisioning reported failed may leave the repository behind.
ScmCreateRepoAndTeamFailed(k) ==
    /\ \/ UNCHANGED scmRepo
       \/ scmRepo' = scmRepo \cup {k}
    /\ UNCHANGED userTeam

\* Mutant: the error of createRepoAndTeam is dropped and the call goes on to
\* the store.
CreateRepoAndTeam_ErrIgnored(p) ==
    /\ pc[p] = "provision"
    /\ UNCHANGED <<storeVars, studentsTeam, teachersTeam, orgAdmin, enr>>
    /\ \/ /\ ScmCreateRepoAndTeam(Key(p))
          /\ Continue(p, "createrepo", Entry("scm", "createRepoAndTeam", "", "", "ok"))
       \/ /\ faults
          /\ ScmCreateRepoAndTeamFailed(Key(p))
          /\ Continue(p, "createrepo",
                      Entry("scm", "createRepoAndTeam", "", "", ErrTransient))

\* updateReposAndTeams, STUDENT: createRepoAndTeam(ctx, sc, course, ...).
\* Creating a repository that exists either returns it (a provider with
\* idempotent create) or is a conflict.
CreateRepoAndTeam(p) ==
    /\ pc[p] = "provision"
    /\ UNCHANGED <<storeVars, studentsTeam, teachersTeam, orgAdmin, enr>>
    /\ \/ /\ ScmCreateRepoAndTeam(Key(p))
          /\ Continue(p, "createrepo", Entry("scm", "createRepoAndTeam", "", "", "ok"))
       \/ /\ Key(p) \in scmRepo
          /\ UNCHANGED <<scmRepo, userTeam>>
          /\ Return(p, Entry("scm", "createRepoAndTeam", "", "", ErrConflict), ErrConflict)
       \/ /\ faults
          /\ ScmCreateRepoAndTeamFailed(Key(p))
          /\ Return(p, Entry("scm", "createRepoAndTeam", "", "", ErrTransient),
                    ErrTransient)

\* Mutant: the error of CreateRepository is dropped and the student enrolled.
CreateRepository_ErrIgnored(p) ==
    /\ pc[p] = "createrepo"
    /\ UNCHANGED <<enrollments, status, courseOrg, scmVars, enr>>
    /\ \/ /\ DbCreateRepository(Key(p))
          /\ Continue(p, "enrollstudent", Entry("write", "CreateRepository", "", "", "ok"))
       \/ /\ faults
          /\ UNCHANGED repos
          /\ Continue(p, "enrollstudent",
                      Entry("write", "CreateRepository", "", "", ErrStore))

\* Mutant: the Repository row is not written before the enrollment is.
CreateRepository_NoWrite(p) ==
    /\ pc[p] = "createrepo"
    /\ UNCHANGED <<storeVars, scmVars, enr>>
    /\ Continue(p, "enrollstudent", Entry("write", "CreateRepository", "", "", "ok"))

\* add student repo to database: s.db.CreateRepository(&dbRepo)
CreateRepository(p) ==
    /\ pc[p] = "createrepo"
    /\ UNCHANGED <<enrollments, status, courseOrg, scmVars, enr>>
    /\ \/ /\ DbCreateRepository(Key(p))
          /\ Continue(p, "enrollstudent", Entry("write", "CreateRepository", "", "", "ok"))
       \/ /\ faults
          /\ UNCHANGED repos
          /\ Return(p, Entry("write", "CreateRepository", "", "", ErrStore), ErrStore)

\* Mutant: a teacher is not made a student; the call reports success.
EnrollStudent_NotForTeacher(p) ==
    /\ pc[p] = "enrollstudent"
    /\ UNCHANGED <<enrollments, courseOrg, repos, scmVars, enr>>
    /\ \/ /\ IF status[req[p].user] = "TEACHER"
             THEN UNCHANGED status
             ELSE DbEnrollStudent(req[p].user)
          /\ Return(p, Entry("write", "EnrollStudent", "", "", "ok"), "ok")
       \/ /\ faults
          /\ UNCHANGED status
          /\ Return(p, Entry("write", "EnrollStudent", "", "", ErrStore), ErrStore)

\* return s.db.EnrollStudent(request.UserID, request.CourseID)
EnrollStudent(p) ==
    /\ pc[p] = "enrollstudent"
    /\ UNCHANGED <<enrollments, courseOrg, repos, scmVars, enr>>
    /\ \/ /\ DbEnrollStudent(req[p].user)
          /\ Return(p, Entry("write", "EnrollStudent", "", "", "ok"), "ok")
       \/ /\ faults
          /\ UNCHANGED status
          /\ Return(p, Entry("write", "EnrollStudent", "", "", ErrStore), ErrStore)

\* Mutant: after the promotion the removal from "students" is skipped.
UpdateOrgMembership_SkipsRemoval(p) ==
    /\ pc[p] = "updateorg"
    /\ UNCHANGED <<storeVars, studentsTeam, teachersTeam, scmRepo, userTeam, enr>>
    /\ \/ /\ ScmUpdateOrgMembership("admin", Key(p))
          /\ Continue(p, "addteacher",
                      Entry("scm", "UpdateOrgMembership", "", "admin", "ok"))
       \/ /\ faults
          /\ UNCHANGED orgAdmin
          /\ Return(p, Entry("scm", "UpdateOrgMembership", "", "admin", ErrTransient),
                    ErrTransient)

\* updateReposAndTeams, TEACHER: sc.UpdateOrgMembership(ctx, orgUpdate), role "admin"
UpdateOrgMembership(p) ==
    /\ pc[p] = "updateorg"
    /\ UNCHANGED <<storeVars, studentsTeam, teachersTeam, scmRepo, userTeam, enr>>
    /\ \/ /\ ScmUpdateOrgMembership("admin", Key(p))
          /\ Continue(p, "removestudent",
                      Entry("scm", "UpdateOrgMembership", "", "admin", "ok"))
       \/ /\ faults
          /\ UNCHANGED orgAdmin
          /\ Return(p, Entry("scm", "UpdateOrgMembership", "", "admin", ErrTransient),
                    ErrTransient)

\* Mutant: a failed removal is compensated by undoing the promotion.
RemoveStudentFromTeam_Compensates(p) ==
    /\ pc[p] = "removestudent"
    /\ UNCHANGED <<storeVars, scmRepo, userTeam, enr>>
    /\ \/ /\ ScmRemoveTeamMember("students", Key(p))
          /\ UNCHANGED orgAdmin
          /\ Continue(p, "addteacher",
                      Entry("scm", "RemoveTeamMember", "students", "", "ok"))
       \/ /\ faults
          /\ UNCHANGED <<studentsTeam, teachersTeam>>
          /\ ScmUpdateOrgMembership("member", Key(p))
          /\ Return(p, Entry("scm", "RemoveTeamMember", "students", "", ErrTransient),
                    ErrTransient)

\* updateReposAndTeams, TEACHER: sc.RemoveTeamMember(ctx, teamOpt) on "students"
RemoveStudentFromTeam(p) ==
    /\ pc[p] = "removestudent"
    /\ UNCHANGED <<storeVars, orgAdmin, scmRepo, userTeam, enr>>
    /\ \/ /\ ScmRemoveTeamMember("students", Key(p))
          /\ Continue(p, "addteacher",
                      Entry("scm", "RemoveTeamMember", "students", "", "ok"))
       \/ /\ faults
          /\ UNCHANGED <<studentsTeam, teachersTeam>>
          /\ Return(p, Entry("scm", "RemoveTeamMember", "students", "", ErrTransient),
                    ErrTransient)

\* updateReposAndTeams, TEACHER: teamOpt.TeamSlug = "teachers",
\* teamOpt.Role = "maintainer"; return nil, sc.AddTeamMember(ctx, teamOpt)
AddTeacherToTeam(p) ==
    /\ pc[p] = "addteacher"
    /\ UNCHANGED <<storeVars, orgAdmin, scmRepo, userTeam, enr>>
    /\ \/ /\ ScmAddTeamMember("teachers", Key(p))
          /\ Continue(p, "enrollteacher",
                      Entry("scm", "AddTeamMember", "teachers", "maintainer", "ok"))
       \/ /\ faults
          /\ UNCHANGED <<studentsTeam, teachersTeam>>
          /\ Return(p, Entry("scm", "AddTeamMember", "teachers", "maintainer", ErrTransient),
                    ErrTransient)

\* return s.db.EnrollTeacher(teacher.ID, course.ID)
EnrollTeacher(p) ==
    /\ pc[p] = "enrollteacher"
    /\ UNCHANGED <<enrollments, courseOrg, repos, scmVars, enr>>
    /\ \/ /\ DbEnrollTeacher(req[p].user)
          /\ Return(p, Entry("write", "EnrollTeacher", "", "", "ok"), "ok")
       \/ /\ faults
          /\ UNCHANGED status
          /\ Return(p, Entry("write", "EnrollTeacher", "", "", ErrStore), ErrStore)

\* no case of the switch matches: return fmt.Errorf("unknown enrollment")
UnknownStatus(p) ==
    /\ pc[p] = "unknown"
    /\ pc'     = [pc EXCEPT ![p] = "done"]
    /\ result' = [result EXCEPT ![p] = ErrUnknown]
    /\ UNCHANGED <<storeVars, scmVars, req, enr, log, pre, first, faults, upd>>

\* The transient failures of the store and of the SCM provider end.
StopFaults ==
    /\ faults
    /\ faults' = FALSE
    /\ UNCHANGED <<storeVars, scmVars, callVars, upd>>

\* One step of the updateEnrollment call of caller p.
Transition(p) ==
    \/ Begin(p)
    \/ GetEnrollment(p)
    \/ RejectEnrollment(p)
    \/ SetPendingEnrollment(p)
    \/ GetRepositories(p)
    \/ GetOrganization(p)
    \/ AddStudentToTeam(p)
    \/ CreateRepoAndTeam(p)
    \/ CreateRepository(p)
    \/ EnrollStudent(p)
    \/ UpdateOrgMembership(p)
    \/ RemoveStudentFromTeam(p)
    \/ AddTeacherToTeam(p)
    \/ EnrollTeacher(p)
    \/ UnknownStatus(p)

\* A sequential series of updateEnrollment calls.
Next ==
    \/ \E p \in SeqProcs : Transition(p)
    \/ StopFaults

Spec == Init /\ [][Next]_vars

(***************************************************************************)
(* The life of a course: users ask to join (createEnrollment), teachers    *)
(* accept, reject and promote them (updateEnrollment) and update the       *)
(* course (updateCourse).  The handlers run one after another; the store   *)
(* and the SCM may fail in createEnrollment and updateCourse at any time.  *)
(***************************************************************************)

\* The users that ask to join the course; the others never do.
Applicants == {42}

\* The course of the model has ID 7; no course has ID 8.
Courses   == {7}
CourseIDs == {7, 8}

\* Organizations that exist on the SCM, and those a request may name.
ScmOrgs     == Orgs
RequestOrgs == Orgs \cup {300}

\* No updateEnrollment call is in progress.
Quiescent == \A p \in Procs : pc[p] \in {"idle", "done"}

\* s.db.CreateEnrollment(&enrollment): an enrollment is unique per
\* (userID, courseID).  The store may fail.
DbCreateEnrollment(enrollment) ==
    /\ enrollment.user \notin enrollments
    /\ enrollments' = enrollments \cup {enrollment.user}
    /\ DbSetStatus(enrollment.user, enrollment.status)

\* s.db.UpdateCourse(request)
DbUpdateCourse(request) == courseOrg' = request.org

\* Mutant: the enrollment is stored with the status of the request.
CreateEnrollment_KeepsStatus ==
    \E u \in Applicants, st \in Statuses :
      LET request    == [user |-> u, status |-> st]
          enrollment == [user |-> request.user, status |-> request.status]
      IN
      /\ Quiescent
      /\ UNCHANGED <<courseOrg, repos, scmVars, callVars, faults, upd>>
      /\ \/ DbCreateEnrollment(enrollment)
         \/ UNCHANGED <<enrollments, status>>

\* createEnrollment(request)
CreateEnrollment ==
    \E u \in Applicants, st \in Statuses :
      LET request    == [user |-> u, status |-> st]
          enrollment == [user |-> request.user, status |-> "PENDING"]
      IN
      /\ Quiescent
      /\ UNCHANGED <<courseOrg, repos, scmVars, callVars, faults, upd>>
      /\ \/ DbCreateEnrollment(enrollment)
         \/ UNCHANGED <<enrollments, status>>

\* The record of an updateCourse call.
Updated(request, calls, res) ==
    upd' = [id |-> request.id, org |-> request.org, before |-> courseOrg,
            calls |-> calls, result |-> res]

GetCourseOk       == Entry("read", "GetCourse", "", "", "ok")
GetOrganizationOk == Entry("scm", "GetOrganization", "", "", "ok")

\* Mutant: the organization of the request is not looked up.
UpdateCourse_NoOrgCheck ==
    \E id \in CourseIDs, org \in RequestOrgs :
      LET request == [id |-> id, org |-> org] IN
      /\ Quiescent
      /\ UNCHANGED <<enrollments, status, repos, scmVars, callVars, faults>>
      /\ \/ /\ request.id \notin Courses
            /\ UNCHANGED courseOrg
            /\ Updated(request,
                       <<Entry("read", "GetCourse", "", "", ErrNotFound)>>, ErrNotFound)
         \/ /\ request.id \in Courses
            /\ DbUpdateCourse(request)
            /\ Updated(request,
                       <<GetCourseOk, Entry("write", "UpdateCourse", "", "", "ok")>>, "ok")

\* updateCourse(ctx, sc, request)
UpdateCourse ==
    \E id \in CourseIDs, org \in RequestOrgs :
      LET request == [id |-> id, org |-> org] IN
      /\ Quiescent
      /\ UNCHANGED <<enrollments, status, repos, scmVars, callVars, faults>>
      /\ \/ \* s.db.GetCourse(request.ID) fails
            /\ UNCHANGED courseOrg
            /\ \/ /\ request.id \notin Courses
                  /\ Updated(request,
                             <<Entry("read", "GetCourse", "", "", ErrNotFound)>>,
                             ErrNotFound)
               \/ Updated(request,
                          <<Entry("read", "GetCourse", "", "", ErrStore)>>, ErrStore)
         \/ \* sc.GetOrganization(ctx, request.OrganizationID) fails
            /\ request.id \in Courses
            /\ UNCHANGED courseOrg
            /\ \/ /\ request.org \notin ScmOrgs
                  /\ Updated(request,
                             <<GetCourseOk,
                               Entry("scm", "GetOrganization", "", "", ErrNotFound)>>,
                             ErrNotFound)
               \/ Updated(request,
                          <<GetCourseOk,
                            Entry("scm", "GetOrganization", "", "", ErrTransient)>>,
                          ErrTransient)
         \/ \* return s.db.UpdateCourse(request)
            /\ request.id \in Courses
            /\ request.org \in ScmOrgs
            /\ \/ /\ DbUpdateCourse(request)
                  /\ Updated(request,
                             <<GetCourseOk, GetOrganizationOk,
                               Entry("write", "UpdateCourse", "", "", "ok")>>, "ok")
               \/ /\ UNCHANGED courseOrg
                  /\ Updated(request,
                             <<GetCourseOk, GetOrganizationOk,
                               Entry("write", "UpdateCourse", "", "", ErrStore)>>,
                             ErrStore)

\* No user has asked to join the course yet; updateEnrollment meets no
\* failure but a missing enrollment.
LifeInit ==
    /\ enrollments  = {}
    /\ status       = [u \in Users |-> "NONE"]
    /\ courseOrg    = 100
    /\ repos        = [k \in Keys |-> 0]
    /\ studentsTeam = {}
    /\ teachersTeam = {}
    /\ orgAdmin     = {}
    /\ scmRepo      = {}
    /\ userTeam     = {}
    /\ pc           = [p \in Procs |-> "idle"]
    /\ req          = [p \in Procs |-> [user |-> 42, status |-> "NONE"]]
    /\ enr          = [p \in Procs |-> 100]
    /\ log          = [p \in Procs |-> <<>>]
    /\ result       = [p \in Procs |-> "none"]
    /\ pre          = [p \in Procs |-> [status |-> "NONE", repos |-> 0, clean |-> FALSE]]
    /\ first        = [p \in Procs |-> [status |-> "NONE", repos |-> 0, retry |-> FALSE]]
    /\ faults       = FALSE
    /\ upd          = NoUpdate

LifeNext ==
    \/ CreateEnrollment
    \/ \E p \in SeqProcs : Transition(p)
    \/ UpdateCourse

SpecLife == LifeInit /\ [][LifeNext]_vars

(***************************************************************************)
(* Two callers accept the same user as STUDENT at the same time: nothing   *)
(* in updateEnrollment serializes them, their steps interleave freely.     *)
(***************************************************************************)
RaceUser == 42

RaceStep(p) ==
    \/ BeginCall(p, RaceUser, "STUDENT")
    \/ GetEnrollment(p)
    \/ GetRepositories(p)
    \/ GetOrganization(p)
    \/ AddStudentToTeam(p)
    \/ CreateRepoAndTeam(p)
    \/ CreateRepository(p)
    \/ EnrollStudent(p)

RaceNext ==
    \/ \E p \in Procs : RaceStep(p)
    \/ StopFaults

SpecRace == Init /\ [][RaceNext]_vars

(***************************************************************************)
(* Two callers, each making one call for a user of its own, at the same    *)
(* time.  Each user starts in a state earlier calls leave a user in.       *)
(***************************************************************************)
UserOf(p) == IF p = 1 THEN 42 ELSE 43

\* States of a (user, course) pair: never accepted; accepted as student;
\* promoted without having been a student; promoted student; rejected
\* student.
Priors ==
    { [status |-> "PENDING",  repos |-> 0, students |-> FALSE, teachers |-> FALSE,
       admin |-> FALSE, repo |-> FALSE, team |-> FALSE],
      [status |-> "STUDENT",  repos |-> 1, students |-> TRUE,  teachers |-> FALSE,
       admin |-> FALSE, repo |-> TRUE,  team |-> TRUE],
      [status |-> "TEACHER",  repos |-> 0, students |-> FALSE, teachers |-> TRUE,
       admin |-> TRUE,  repo |-> FALSE, team |-> FALSE],
      [status |-> "TEACHER",  repos |-> 1, students |-> FALSE, teachers |-> TRUE,
       admin |-> TRUE,  repo |-> TRUE,  team |-> TRUE],
      [status |-> "REJECTED", repos |-> 1, students |-> TRUE,  teachers |-> FALSE,
       admin |-> FALSE, repo |-> TRUE,  team |-> TRUE] }

PairsInit ==
    \E prior \in [Users -> Priors] :
        /\ enrollments  = Users
        /\ status       = [u \in Users |-> prior[u].status]
        /\ courseOrg    = 100
        /\ repos        = [k \in Keys |-> IF k[1] = 100 THEN prior[k[2]].repos ELSE 0]
        /\ studentsTeam = {k \in Keys : k[1] = 100 /\ prior[k[2]].students}
        /\ teachersTeam = {k \in Keys : k[1] = 100 /\ prior[k[2]].teachers}
        /\ orgAdmin     = {k \in Keys : k[1] = 100 /\ prior[k[2]].admin}
        /\ scmRepo      = {k \in Keys : k[1] = 100 /\ prior[k[2]].repo}
        /\ userTeam     = {k \in Keys : k[1] = 100 /\ prior[k[2]].team}
        /\ pc           = [p \in Procs |-> "idle"]
        /\ req          = [p \in Procs |-> [user |-> UserOf(p), status |-> "NONE"]]
        /\ enr          = [p \in Procs |-> 100]
        /\ log          = [p \in Procs |-> <<>>]
        /\ result       = [p \in Procs |-> "none"]
        /\ pre          = [p \in Procs |->
                              [status |-> prior[UserOf(p)].status,
                               repos  |-> prior[UserOf(p)].repos,
                               clean  |-> FALSE]]
        /\ first        = [p \in Procs |->
                              [status |-> prior[UserOf(p)].status,
                               repos  |-> prior[UserOf(p)].repos,
                               retry  |-> FALSE]]
        /\ faults       = TRUE
        /\ upd          = NoUpdate

\* The one call of caller p, for its own user.
BeginOwn(p) ==
    /\ pc[p] = "idle"
    /\ \E t \in Statuses : BeginCall(p, UserOf(p), t)

PairStep(p) ==
    \/ BeginOwn(p)
    \/ GetEnrollment(p)
    \/ RejectEnrollment(p)
    \/ SetPendingEnrollment(p)
    \/ GetRepositories(p)
    \/ GetOrganization(p)
    \/ AddStudentToTeam(p)
    \/ CreateRepoAndTeam(p)
    \/ CreateRepository(p)
    \/ EnrollStudent(p)
    \/ UpdateOrgMembership(p)
    \/ RemoveStudentFromTeam(p)
    \/ AddTeacherToTeam(p)
    \/ EnrollTeacher(p)
    \/ UnknownStatus(p)

PairsNext ==
    \/ \E p \in Procs : PairStep(p)
    \/ StopFaults

SpecPairs == PairsInit /\ [][PairsNext]_vars

TypeOK ==
    /\ enrollments \subseteq Users
    /\ status \in [Users -> Statuses]
    /\ courseOrg \in Orgs
    /\ repos \in [Keys -> 0..MaxRepos]
    /\ studentsTeam \subseteq Keys /\ teachersTeam \subseteq Keys
    /\ orgAdmin \subseteq Keys /\ scmRepo \subseteq Keys
    /\ userTeam \subseteq scmRepo
    /\ result \in [Procs -> {"none", "ok"} \cup Errors]
    /\ \A p \in Procs : (pc[p] = "done") <=> (result[p] # "none")
    /\ faults \in BOOLEAN

(***************************************************************************)
(* Observations on a call's recorded operations.                           *)
(***************************************************************************)
IsScm(e)   == e.kind = "scm"
IsWrite(e) == e.kind = "write"
IsOp(op, e) == e.op = op

ScmCalls(p)    == SelectSeq(log[p], IsScm)
StoreWrites(p) == SelectSeq(log[p], IsWrite)

\* The names of the operations of a sequence of entries.
Ops(es) == [i \in 1..Len(es) |-> es[i].op]

\* How many times the call has invoked operation op.
Count(p, op) == Cardinality({i \in 1..Len(log[p]) : log[p][i].op = op})

\* Some SCM adapter operation of the call returned an error.
ScmFailed(p) == \E i \in 1..Len(log[p]) : IsScm(log[p][i]) /\ log[p][i].res # "ok"

\* No operation of the call failed.
NoFailure(p) == \A i \in 1..Len(log[p]) : log[p][i].res = "ok"

\* The call has returned.
Returned(p) == pc[p] = "done"

\* The enrollment was loaded from the store: the Transition proper has begun.
Loaded(p) == Len(log[p]) >= 1 /\ log[p][1].res = "ok"

Target(p) == req[p].status

(***************************************************************************)
(* C1: when a call with target STUDENT or TEACHER has returned and one of  *)
(* its SCM adapter operations returned an error, the persisted status is   *)
(* the one the call found, no Repository row was added, and the call       *)
(* returned an error.                                                      *)
(***************************************************************************)
C1_NoStoreMutationOnScmFailure ==
    \A p \in Procs :
        (Returned(p) /\ Target(p) \in {"STUDENT", "TEACHER"} /\ ScmFailed(p)) =>
            /\ status[req[p].user] = pre[p].status
            /\ repos[Key(p)] = pre[p].repos
            /\ StoreWrites(p) = <<>>
            /\ result[p] \in Errors

\* A STUDENT call has returned whose provisioning failed after AddTeamMember
\* had succeeded.
C1_Witness ==
    \E p \in Procs :
        /\ Returned(p) /\ ScmFailed(p)
        /\ Target(p) = "STUDENT"
        /\ Count(p, "createRepoAndTeam") = 1
        /\ Key(p) \in studentsTeam

(***************************************************************************)
(* C2: between calls, the store never shows a status the SCM side does not *)
(* show: a STUDENT is a member of team "students" and has a per-user       *)
(* repository; a TEACHER is organization admin, a member of team           *)
(* "teachers" and not a member of team "students".                         *)
(***************************************************************************)
C2_StoreNeverAheadOfScm ==
    Quiescent =>
        \A u \in Users :
            LET k == <<courseOrg, u>> IN
            /\ status[u] = "STUDENT" => (k \in studentsTeam /\ k \in scmRepo)
            /\ status[u] = "TEACHER" =>
                   (k \in orgAdmin /\ k \in teachersTeam /\ k \notin studentsTeam)

(***************************************************************************)
(* C3 as stated: a STUDENT Transition that finds a USER Repository row in  *)
(* the store makes no SCM call, adds no row and calls EnrollStudent        *)
(* exactly once.                                                           *)
(***************************************************************************)
C3_ReacceptanceAsStated ==
    \A p \in Procs :
        (Returned(p) /\ Loaded(p) /\ Target(p) = "STUDENT" /\ pre[p].repos > 0) =>
            /\ ScmCalls(p) = <<>>
            /\ repos[Key(p)] = pre[p].repos
            /\ Count(p, "EnrollStudent") = 1

(***************************************************************************)
(* C3 amended: a STUDENT Transition that starts with a USER Repository row *)
(* in the store makes no SCM call and adds no row; if the GetRepositories  *)
(* query succeeds it calls EnrollStudent exactly once as its only store    *)
(* write, and if the query fails it returns that error with no store       *)
(* write.                                                                  *)
(***************************************************************************)
C3_Reacceptance ==
    \A p \in Procs :
        (Returned(p) /\ Loaded(p) /\ Target(p) = "STUDENT" /\ pre[p].repos > 0) =>
            /\ ScmCalls(p) = <<>>
            /\ repos[Key(p)] = pre[p].repos
            /\ IF log[p][2].res = "ok"
               THEN Ops(StoreWrites(p)) = <<"EnrollStudent">>
               ELSE StoreWrites(p) = <<>> /\ result[p] = log[p][2].res

\* A rejected former student is accepted again: the one row is reused.
C3_Witness ==
    \E p \in Procs :
        /\ Returned(p) /\ Target(p) = "STUDENT" /\ result[p] = "ok"
        /\ pre[p].status = "REJECTED" /\ pre[p].repos = 1
        /\ status[req[p].user] = "STUDENT"
        /\ repos[Key(p)] = 1

(***************************************************************************)
(* C4: a TEACHER Transition in which nothing fails performs, in this order *)
(* and once each: GetOrganization, UpdateOrgMembership(admin),             *)
(* RemoveTeamMember("students"), AddTeamMember("teachers", maintainer),    *)
(* and only then the store write EnrollTeacher.                            *)
(***************************************************************************)
C4_TeacherOrder ==
    \A p \in Procs :
        (Returned(p) /\ Target(p) = "TEACHER" /\ NoFailure(p)) =>
            /\ log[p] = << Entry("read", "GetEnrollmentByCourseAndUser", "", "", "ok"),
                           Entry("scm", "GetOrganization", "", "", "ok"),
                           Entry("scm", "UpdateOrgMembership", "", "admin", "ok"),
                           Entry("scm", "RemoveTeamMember", "students", "", "ok"),
                           Entry("scm", "AddTeamMember", "teachers", "maintainer", "ok"),
                           Entry("write", "EnrollTeacher", "", "", "ok") >>
            /\ status[req[p].user] = "TEACHER"

\* A student has been promoted: organization admin, moved between the teams.
C4_Witness ==
    \E p \in Procs :
        /\ Returned(p) /\ Target(p) = "TEACHER" /\ result[p] = "ok"
        /\ pre[p].status = "STUDENT"
        /\ Key(p) \in orgAdmin /\ Key(p) \in teachersTeam
        /\ Key(p) \notin studentsTeam

(***************************************************************************)
(* C5: a STUDENT Transition that starts without a USER Repository row and  *)
(* in which nothing fails calls AddTeamMember("students") once, provisions *)
(* the repository and its team once, writes one Repository row before      *)
(* EnrollStudent, calls EnrollStudent once, and ends with status STUDENT.  *)
(***************************************************************************)
C5_FirstAcceptance ==
    \A p \in Procs :
        (Returned(p) /\ Target(p) = "STUDENT" /\ NoFailure(p) /\ pre[p].repos = 0) =>
            /\ Ops(ScmCalls(p)) = <<"GetOrganization", "AddTeamMember", "createRepoAndTeam">>
            /\ ScmCalls(p)[2].team = "students"
            /\ Ops(StoreWrites(p)) = <<"CreateRepository", "EnrollStudent">>
            /\ repos[Key(p)] = 1
            /\ Key(p) \in studentsTeam /\ Key(p) \in scmRepo /\ Key(p) \in userTeam
            /\ status[req[p].user] = "STUDENT"

\* A pending user without repository has been accepted as student.
C5_Witness ==
    \E p \in Procs :
        /\ Returned(p) /\ Target(p) = "STUDENT" /\ result[p] = "ok"
        /\ pre[p].status = "PENDING" /\ pre[p].repos = 0
        /\ repos[Key(p)] = 1
        /\ status[req[p].user] = "STUDENT"

(***************************************************************************)
(* C6: a Transition to REJECTED or PENDING, whatever the status before,    *)
(* calls no SCM adapter operation and performs exactly one store write,    *)
(* RejectEnrollment or SetPendingEnrollment; no step of such a call        *)
(* changes a team membership, an organization role or a repository.        *)
(***************************************************************************)
C6_RejectPendingFrame ==
    /\ [](\A p \in Procs :
            (Returned(p) /\ Loaded(p) /\ Target(p) \in {"REJECTED", "PENDING"}) =>
                /\ ScmCalls(p) = <<>>
                /\ Ops(StoreWrites(p)) =
                       << IF Target(p) = "REJECTED" THEN "RejectEnrollment"
                                                    ELSE "SetPendingEnrollment" >>)
    /\ [][\A p \in Procs :
            (/\ Target(p) \in {"REJECTED", "PENDING"}
             /\ pc[p] \notin {"idle", "done"}
             /\ pc'[p] # pc[p]) => UNCHANGED scmVars]_vars

\* A student with repository and team membership has been rejected, and the
\* access granted earlier is still there.
C6_Witness ==
    \E p \in Procs :
        /\ Returned(p) /\ Target(p) = "REJECTED" /\ result[p] = "ok"
        /\ pre[p].status = "STUDENT"
        /\ status[req[p].user] = "REJECTED"
        /\ Key(p) \in studentsTeam /\ Key(p) \in scmRepo

(***************************************************************************)
(* C7: a call whose target status is none of PENDING, REJECTED, STUDENT,   *)
(* TEACHER returns an error, calls no SCM adapter operation and performs   *)
(* no store write: status and Repository rows are as before the call.      *)
(***************************************************************************)
C7_UnknownStatusRejected ==
    \A p \in Procs :
        (Returned(p) /\ Target(p) \notin ValidTargets) =>
            /\ result[p] \in Errors
            /\ ScmCalls(p) = <<>>
            /\ StoreWrites(p) = <<>>
            /\ status[req[p].user] = pre[p].status
            /\ repos[<<courseOrg, req[p].user>>] = pre[p].repos

\* A call with target NONE reached the end of the switch.
C7_Witness ==
    \E p \in Procs :
        /\ Returned(p) /\ Target(p) = "NONE" /\ Loaded(p)
        /\ result[p] = ErrUnknown

(***************************************************************************)
(* C8: in every state of a sequential series of calls, a user whose        *)
(* persisted status is STUDENT has exactly one USER Repository row under   *)
(* the course's organization.                                              *)
(***************************************************************************)
C8_StudentHasOneRepository ==
    \A u \in Users :
        status[u] = "STUDENT" => repos[<<courseOrg, u>>] = 1

\* A STUDENT call succeeded as the retry of a failed attempt.
C8_Witness ==
    \E p \in Procs :
        /\ Returned(p) /\ Target(p) = "STUDENT" /\ result[p] = "ok"
        /\ first[p].retry
        /\ status[req[p].user] = "STUDENT"
        /\ repos[Key(p)] = 1

(***************************************************************************)
(* C9: provisioning (createRepoAndTeam) is never invoked for a user for    *)
(* whom it has succeeded before, i.e. whose per-user repository and team   *)
(* exist on the SCM.                                                       *)
(***************************************************************************)
C9_NoReprovisioning ==
    [][\A p \in Procs :
          (pc[p] = "provision" /\ pc'[p] # "provision") => Key(p) \notin userTeam]_vars

\* The store state a series of attempts ends in when none of them fails.
ExpectedRepos(p) ==
    IF Target(p) = "STUDENT" /\ first[p].repos = 0 THEN 1 ELSE first[p].repos

(***************************************************************************)
(* C10: a retry of a call that failed with a transient error, run when     *)
(* failures have stopped, returns success with the target status           *)
(* persisted and the Repository rows of a run without failure.             *)
(***************************************************************************)
C10_RetrySucceeds ==
    \A p \in Procs :
        (Returned(p) /\ first[p].retry /\ pre[p].clean /\ Target(p) \in ValidTargets) =>
            /\ result[p] = "ok"
            /\ status[req[p].user] = Target(p)
            /\ repos[Key(p)] = ExpectedRepos(p)

(***************************************************************************)
(* C11: when createRepoAndTeam answers a STUDENT Transition with a         *)
(* conflict (the repository exists on the SCM), the call does not return   *)
(* that error leaving the user un-enrolled: it goes on with the existing   *)
(* state.                                                                  *)
(***************************************************************************)
C11_ConflictNotFatal ==
    \A p \in Procs :
        (/\ Returned(p) /\ Target(p) = "STUDENT"
         /\ \E i \in 1..Len(log[p]) :
                log[p][i].op = "createRepoAndTeam" /\ log[p][i].res = ErrConflict) =>
            result[p] \notin Errors

(***************************************************************************)
(* C12: createEnrollment stores the new enrollment with status PENDING     *)
(* whatever status the request carries, and changes nothing on the SCM;    *)
(* no step of createEnrollment, updateEnrollment or updateCourse removes   *)
(* an enrollment.                                                          *)
(***************************************************************************)
C12_CreatedPendingNeverDeleted ==
    [][/\ enrollments \subseteq enrollments'
       /\ \A u \in Users :
            (u \notin enrollments /\ u \in enrollments') =>
                /\ status'[u] = "PENDING"
                /\ UNCHANGED scmVars]_vars

\* User 42 has asked to join and no updateEnrollment call has been made.
C12_Witness ==
    /\ 42 \in enrollments
    /\ status[42] = "PENDING"
    /\ \A p \in Procs : pc[p] = "idle"
    /\ studentsTeam = {} /\ teachersTeam = {} /\ orgAdmin = {} /\ scmRepo = {}

(***************************************************************************)
(* C17: when no enrollment exists for the user of the request,             *)
(* updateEnrollment returns the error of the lookup, whatever the target   *)
(* status, having called no SCM operation and written nothing.             *)
(***************************************************************************)
C17_MissingEnrollment ==
    \A p \in Procs :
        (Returned(p) /\ req[p].user \notin enrollments) =>
            /\ Len(log[p]) = 1
            /\ log[p][1].op = "GetEnrollmentByCourseAndUser"
            /\ log[p][1].res \in Errors
            /\ result[p] = log[p][1].res
            /\ ScmCalls(p) = <<>>
            /\ StoreWrites(p) = <<>>
            /\ status[req[p].user] = "NONE"
            /\ \A o \in Orgs : /\ repos[<<o, req[p].user>>] = 0
                               /\ <<o, req[p].user>> \notin studentsTeam \cup teachersTeam
                                                           \cup orgAdmin \cup scmRepo

\* A promotion to TEACHER of user 43, who never asked to join, was refused.
C17_Witness ==
    \E p \in Procs :
        /\ Returned(p)
        /\ req[p] = [user |-> 43, status |-> "TEACHER"]
        /\ 43 \notin enrollments
        /\ result[p] = ErrNotFound

(***************************************************************************)
(* C18: updateCourse calls s.db.UpdateCourse only after GetCourse found    *)
(* the course and GetOrganization found the organization of the request;   *)
(* when one of its calls fails it returns that error, calls nothing more   *)
(* and the course is as it was.                                            *)
(***************************************************************************)
C18_UpdateCourseGuarded ==
    upd.result # "none" =>
        LET n == Len(upd.calls) IN
        /\ \A i \in 1..n :
              upd.calls[i].op = "UpdateCourse" =>
                  /\ i = 3
                  /\ upd.calls[1] = GetCourseOk
                  /\ upd.calls[2] = GetOrganizationOk
                  /\ upd.id \in Courses
                  /\ upd.org \in ScmOrgs
        /\ \A i \in 1..n :
              upd.calls[i].res # "ok" =>
                  /\ i = n
                  /\ upd.result = upd.calls[i].res
                  /\ courseOrg = upd.before
        /\ upd.result = "ok" =>
              /\ upd.calls[n].op = "UpdateCourse"
              /\ courseOrg = upd.org

\* An update naming an organization the SCM does not have was refused.
C18_Witness ==
    /\ upd.id = 7 /\ upd.org = 300
    /\ upd.result = ErrNotFound
    /\ Len(upd.calls) = 2
    /\ courseOrg = upd.before

(***************************************************************************)
(* C19: no step changes the organizationID of a course in which at least   *)
(* one user is enrolled as STUDENT.                                        *)
(***************************************************************************)
C19_OrgImmutableWithStudents ==
    [][(\E u \in enrollments : status[u] = "STUDENT") => courseOrg' = courseOrg]_vars

(***************************************************************************)
(* C13: when two updateEnrollment calls to STUDENT for the same user run   *)
(* concurrently, in every reachable state the store holds at most one USER *)
(* Repository row for the user and the two calls together have invoked     *)
(* createRepoAndTeam at most once.                                         *)
(***************************************************************************)
C13_RaceFree ==
    /\ repos[<<courseOrg, RaceUser>>] <= 1
    /\ Count(1, "createRepoAndTeam") + Count(2, "createRepoAndTeam") <= 1

\* The state of the pair of user u.
PairState(u) ==
    LET k == <<courseOrg, u>> IN
    [status   |-> status[u],
     repos    |-> repos[k],
     students |-> k \in studentsTeam,
     teachers |-> k \in teachersTeam,
     admin    |-> k \in orgAdmin,
     repo     |-> k \in scmRepo,
     team     |-> k \in userTeam]

\* What an operation that succeeded does to the pair of the call.
Apply(s, e) ==
    IF e.res # "ok" THEN s
    ELSE CASE e.op = "RejectEnrollment"     -> [s EXCEPT !.status = "REJECTED"]
           [] e.op = "SetPendingEnrollment" -> [s EXCEPT !.status = "PENDING"]
           [] e.op = "EnrollStudent"        -> [s EXCEPT !.status = "STUDENT"]
           [] e.op = "EnrollTeacher"        -> [s EXCEPT !.status = "TEACHER"]
           [] e.op = "CreateRepository"     -> [s EXCEPT !.repos = @ + 1]
           [] e.op = "createRepoAndTeam"    -> [s EXCEPT !.repo = TRUE, !.team = TRUE]
           [] e.op = "UpdateOrgMembership"  -> [s EXCEPT !.admin = TRUE]
           [] e.op = "RemoveTeamMember"     -> [s EXCEPT !.students = FALSE]
           [] e.op = "AddTeamMember" /\ e.team = "students"
                                            -> [s EXCEPT !.students = TRUE]
           [] e.op = "AddTeamMember" /\ e.team = "teachers"
                                            -> [s EXCEPT !.teachers = TRUE]
           [] OTHER                         -> s

RECURSIVE Replay(_, _)
Replay(s, es) == IF es = <<>> THEN s ELSE Replay(Apply(s, Head(es)), Tail(es))

\* The states the call of caller p leaves its pair in when it runs alone and
\* the store and the SCM answer as they did: its operations applied, in
\* order, to the state the pair was in.  A provisioning that failed may have
\* left the repository.
AloneOutcomes(p) ==
    LET prior == CHOOSE s \in Priors :
                    s.status = pre[p].status /\ s.repos = pre[p].repos
        r     == Replay(prior, log[p])
    IN  IF \E i \in 1..Len(log[p]) :
              log[p][i].op = "createRepoAndTeam" /\ log[p][i].res = ErrTransient
        THEN {r, [r EXCEPT !.repo = TRUE]}
        ELSE {r}

C15_TeacherPartialFailure ==
    \A p \in Procs :
        \A i \in 1..Len(log[p]) :
            (/\ Returned(p) /\ Target(p) = "TEACHER"
             /\ log[p][i].op \in {"RemoveTeamMember", "AddTeamMember"}
             /\ log[p][i].res # "ok") =>
                /\ i = Len(log[p])
                /\ log[p][3] = Entry("scm", "UpdateOrgMembership", "", "admin", "ok")
                /\ result[p] = log[p][i].res
                /\ Count(p, "EnrollTeacher") = 0
                /\ StoreWrites(p) = <<>>
                /\ status[req[p].user] = pre[p].status
                /\ Key(p) \in orgAdmin

\* A student's promotion failed at AddTeamMember("teachers"): the student is
\* organization admin, in neither team, and still STUDENT in the store.
C15_Witness ==
    \E p \in Procs :
        /\ Returned(p) /\ Target(p) = "TEACHER"
        /\ Len(log[p]) = 5
        /\ log[p][5].op = "AddTeamMember" /\ log[p][5].res = ErrTransient
        /\ pre[p].status = "STUDENT" /\ status[req[p].user] = "STUDENT"
        /\ Key(p) \in orgAdmin
        /\ Key(p) \notin studentsTeam /\ Key(p) \notin teachersTeam

(***************************************************************************)
(* C16: when an SCM adapter operation of a Transition fails, the error     *)
(* the call returns is the error value that operation returned.            *)
(***************************************************************************)
C16_ScmErrorUnmodified ==
    \A p \in Procs :
        \A i \in 1..Len(log[p]) :
            (Returned(p) /\ IsScm(log[p][i]) /\ log[p][i].res # "ok") =>
                result[p] = log[p][i].res

\* A STUDENT call returned the error of AddTeamMember("students").
C16_Witness ==
    \E p \in Procs :
        /\ Returned(p) /\ Target(p) = "STUDENT"
        /\ Len(log[p]) = 4
        /\ log[p][4].op = "AddTeamMember" /\ log[p][4].res = ErrTransient
        /\ result[p] = ErrTransient

\* The operations of a Transition in which nothing fails, by target and by
\* whether a USER Repository row exists.
ExpectedOps(t, hasRepo) ==
    <<"GetEnrollmentByCourseAndUser">> \o
    CASE t = "REJECTED" -> <<"RejectEnrollment">>
      [] t = "PENDING"  -> <<"SetPendingEnrollment">>
      [] t = "STUDENT"  ->
            IF hasRepo
            THEN <<"GetRepositories", "EnrollStudent">>
            ELSE <<"GetRepositories", "GetOrganization", "AddTeamMember",
                   "createRepoAndTeam", "CreateRepository", "EnrollStudent">>
      [] t = "TEACHER"  -> <<"GetOrganization", "UpdateOrgMembership",
                             "RemoveTeamMember", "AddTeamMember", "EnrollTeacher">>

(***************************************************************************)
(* C20: whatever the persisted status before (PENDING, REJECTED, STUDENT   *)
(* or TEACHER), a Transition to one of the four targets in which nothing   *)
(* fails performs the operations its target and the existence of a USER    *)
(* Repository row determine, and ends with the status equal to the target. *)
(***************************************************************************)
C20_StatusIndependent ==
    \A p \in Procs :
        (Returned(p) /\ NoFailure(p) /\ Target(p) \in ValidTargets) =>
            /\ Ops(log[p]) = ExpectedOps(Target(p), pre[p].repos > 0)
            /\ result[p] = "ok"
            /\ status[req[p].user] = Target(p)

\* A teacher has been made a student again, through the existing row.
C20_Witness ==
    \E p \in Procs :
        /\ Returned(p) /\ Target(p) = "STUDENT" /\ result[p] = "ok"
        /\ pre[p].status = "TEACHER" /\ pre[p].repos = 1
        /\ status[req[p].user] = "STUDENT"

====
